---- MODULE Spec2Model ----
(***************************************************************************)
(* A state-machine model of src/oop-products.js: Product (validated        *)
(* record), User / AdminUser (an owned, ordered collection of Products),   *)
(* ProductRepository (an insertion-ordered Map keyed by Product id) and     *)
(* ProductService (a facade over one repository).                          *)
(*                                                                         *)
(* Objects live in heaps and are named by references, so that two holders  *)
(* of the same Product (a User's collection and the repository) or of the  *)
(* same array really share it:                                             *)
(*   products  the Product instances ever constructed, by reference 1..n   *)
(*   arrays    the array objects: each User's #products and the array the  *)
(*             caller got from its latest listProducts() call              *)
(*   held      which array object the caller's variable refers to          *)
(*   store     ProductRepository.store, a Map in insertion order           *)
(*   last      the latest call: operation, arguments, outcome              *)
(*   limit     how many Product instances the behaviour may construct (a   *)
(*             bound of the model, fixed by the initial state)             *)
(***************************************************************************)
EXTENDS Integers, Sequences, FiniteSets, TLC

VARIABLES products, arrays, held, store, last, limit

vars == <<products, arrays, held, store, last, limit>>

(***************************************************************************)
(* Bounds of the model.                                                    *)
(***************************************************************************)
\* Product instances constructed in one behaviour of the catalogue (Spec),
\* of the Product calls (SpecProduct), of the repository and the service
\* (SpecRepo), of a User's collection (SpecList), of a User's Products in
\* the repository (SpecShare) and of the discounts (SpecDiscount).
MaxProducts == 1
MaxInstances == 2
MaxStored == 2
MaxListed == 3
MaxShared == 2
MaxDiscounted == 1

(***************************************************************************)
(* JavaScript values.                                                      *)
(***************************************************************************)
\* An optional argument: None is undefined, Some(x) is the value x.
None == <<>>
Some(x) == <<x>>

\* A number is finite (v counts thousandths: 12.5 is Fin(12500)), +Infinity,
\* -Infinity or NaN.  Undef is the value undefined passed where a number is
\* expected.
Fin(v) == [k |-> "fin", v |-> v]
Inf == [k |-> "inf", v |-> 0]
NegInf == [k |-> "ninf", v |-> 0]
NaN == [k |-> "nan", v |-> 0]
Undef == [k |-> "undef", v |-> 0]

\* Number(val): undefined converts to NaN, a number to itself.
ToNumber(val) == IF val.k = "undef" THEN NaN ELSE val

\* num < 0  (false for NaN)
IsNegative(num) == \/ num.k = "ninf"
                   \/ num.k = "fin" /\ num.v < 0

\* num > 100  (false for NaN)
Above100(num) == \/ num.k = "inf"
                 \/ num.k = "fin" /\ num.v > 100000

\* Number.isNaN(num)
IsNaN(num) == num.k = "nan"

\* v >= 0 as JavaScript evaluates it: false for NaN.
NonNegative(num) == num.k = "inf" \/ (num.k = "fin" /\ num.v >= 0)

(***************************************************************************)
(* toFixed(2).  x.toFixed(2) takes the integer n for which n/100 is        *)
(* closest to the exact value of the double x, the larger n at a tie.  The *)
(* model holds decimal values, the code binary doubles: away from an exact *)
(* decimal half-cent both give the same n; at a decimal half-cent the      *)
(* double lies just above or just below it (or on it) and that decides.    *)
(* The two sets below list, for the values the model's inputs reach, the   *)
(* half-cent cases in which IEEE-754 double arithmetic ends at or above    *)
(* the half-cent, so that toFixed rounds up.                               *)
(***************************************************************************)
\* Literals m/1000 with m % 10 = 5 whose double is >= the decimal value.
SetterTieUp == {5, 125}

\* <<cents, percent in thousandths>>: fl(fl(cents/100) * fl(1 - fl(p/100)))
\* is >= the decimal half-cent.
DiscountTieUp == {<<1, 50000>>, <<7, 50000>>, <<13, 50000>>, <<5, 10000>>,
                  <<15, 10000>>, <<45, 10000>>, <<85, 10000>>,
                  <<105, 10000>>, <<565, 10000>>}

\* The cents of Number(x.toFixed(2)) for the exact value n/d of x >= 0, d a
\* multiple of 100.
RoundCents(n, d, tieUp) ==
  LET u == d \div 100
      q == n \div u
      r == n % u
  IN  IF 2 * r < u THEN q
      ELSE IF 2 * r > u THEN q + 1
      ELSE IF tieUp THEN q + 1 ELSE q

(***************************************************************************)
(* Strings that are looked into are sequences of characters.               *)
(***************************************************************************)
RECURSIVE TrimStart(_)
TrimStart(s) == IF s # <<>> /\ Head(s) = " " THEN TrimStart(Tail(s)) ELSE s

RECURSIVE TrimEnd(_)
TrimEnd(s) == IF s # <<>> /\ s[Len(s)] = " "
              THEN TrimEnd(SubSeq(s, 1, Len(s) - 1)) ELSE s

\* String.prototype.trim
Trim(s) == TrimEnd(TrimStart(s))

(***************************************************************************)
(* Errors.  The source throws plain Error objects; the kind is read off    *)
(* the message (and off the built-in that throws, for toISOString).        *)
(***************************************************************************)
NoError == "none"
\* "Invalid product name ...", "Invalid price ...", "Discount percent ..."
ValidationError == "ValidationError"
\* "Product not found"
NotFoundError == "NotFoundError"
\* "Expected Product instance", "Target must be a User instance."
TypeMismatchError == "TypeMismatchError"
\* Date.prototype.toISOString on an Invalid Date
RangeError == "RangeError"

(***************************************************************************)
(* 1) Product                                                              *)
(***************************************************************************)
\* A Date object: a time value in milliseconds, or an Invalid Date.
DateOf(ms) == [valid |-> TRUE, ms |-> ms]
InvalidDate == [valid |-> FALSE, ms |-> 0]

\* The private fields before the constructor has written them.
Blank == [id |-> "", name |-> <<>>, price |-> NaN, owner |-> "",
          createdAt |-> InvalidDate]

\* The digits of Number.prototype.toString(36).
Base36Digits == <<"0", "1", "2", "3", "4", "5", "6", "7", "8", "9", "a", "b",
                  "c", "d", "e", "f", "g", "h", "i", "j", "k", "l", "m", "n",
                  "o", "p", "q", "r", "s", "t", "u", "v", "w", "x", "y", "z">>

\* Product.generateId, for Math.random() = rnd/4 (rnd in 0..3): rnd/4 in
\* base 36 is "0" for rnd = 0 and "0." followed by the one digit 9*rnd
\* otherwise; slice(2, 10) keeps what follows the "0.".
generateId(rnd) ==
  "p_" \o (IF rnd = 0 THEN "" ELSE Base36Digits[(rnd * 36) \div 4 + 1])

\* Number(num.toFixed(2)) in the price setter, num >= 0 or NaN.
SetterFixed(num) ==
  IF num.k = "fin"
  THEN Fin(10 * RoundCents(num.v, 1000, num.v \in SetterTieUp))
  ELSE num

\* set name(val): the object after the call and the error thrown.
setName(p, val) ==
  IF val = None \/ val[1] = <<>> \/ Len(Trim(val[1])) < 2
  THEN [err |-> ValidationError, p |-> p]
  ELSE [err |-> NoError, p |-> [p EXCEPT !.name = Trim(val[1])]]

\* A price setter that writes the field before it validates.
setPriceWriteFirst(p, val) ==
  LET num == ToNumber(val)
  IN  [err |-> IF IsNaN(num) \/ IsNegative(num) THEN ValidationError
               ELSE NoError,
       p |-> [p EXCEPT !.price = SetterFixed(num)]]

\* set price(val)
setPrice(p, val) ==
  LET num == ToNumber(val)
  IN  IF IsNaN(num) \/ IsNegative(num)
      THEN [err |-> ValidationError, p |-> p]
      ELSE [err |-> NoError, p |-> [p EXCEPT !.price = SetterFixed(num)]]

\* Number((price * (1 - pc / 100)).toFixed(2)) for a stored price (whole
\* cents, Infinity or NaN) and 0 <= pc <= 100.  Infinity * 0 is NaN.
Discounted(price, pc) ==
  IF price.k = "fin"
  THEN LET cents == price.v \div 10
       IN  Fin(10 * RoundCents(cents * (100000 - pc.v), 10000000,
                               <<cents, pc.v>> \in DiscountTieUp))
  ELSE IF price.k = "inf" /\ pc.v < 100000 THEN Inf
  ELSE NaN

\* applyDiscount(percent)
applyDiscount(p, percent) ==
  LET pc == ToNumber(percent)
  IN  IF IsNaN(pc) \/ IsNegative(pc) \/ Above100(pc)
      THEN [err |-> ValidationError, p |-> p]
      ELSE [err |-> NoError,
            p |-> [p EXCEPT !.price = Discounted(p.price, pc)]]

\* new Product({id, name, price, owner, createdAt}) with Math.random() =
\* rnd/4 and the clock at now.  The fields are written in the order of the
\* constructor; a throwing setter ends it and no object results.
Construct(a, rnd, now) ==
  LET p0 == [Blank EXCEPT !.id = IF a.id = None THEN generateId(rnd)
                                 ELSE a.id[1]]
      r1 == setName(p0, a.name)
      r2 == setPrice(r1.p, a.price)
  IN  IF r1.err # NoError THEN [err |-> r1.err, p |-> Blank]
      ELSE IF r2.err # NoError THEN [err |-> r2.err, p |-> Blank]
      ELSE [err |-> NoError,
            p |-> [r2.p EXCEPT
                     !.owner = IF a.owner = None THEN "unknown"
                               ELSE a.owner[1],
                     !.createdAt = IF a.createdAt = None THEN DateOf(now)
                                   ELSE a.createdAt[1]]]

\* An ISO-8601 string "YYYY-MM-DDTHH:mm:ss.sssZ": the calendar day (counted
\* from 1970-01-01) and the time of day to the millisecond.
toISOString(d) == [kind |-> "iso", day |-> d.ms \div 86400000,
                   time |-> d.ms % 86400000]
NoTimestamp == [kind |-> "absent", day |-> 0, time |-> 0]
NotATimestamp == [kind |-> "garbage", day |-> 0, time |-> 0]

\* new Date(string)
ParseDate(str) == IF str.kind = "iso"
                  THEN DateOf(str.day * 86400000 + str.time)
                  ELSE InvalidDate

\* toJSON(): the plain record, or the error toISOString throws.
toJSON(p) ==
  IF ~p.createdAt.valid
  THEN [err |-> RangeError,
        json |-> [id |-> None, name |-> None, price |-> Undef,
                  owner |-> None, createdAt |-> NoTimestamp]]
  ELSE [err |-> NoError,
        json |-> [id |-> Some(p.id), name |-> Some(p.name),
                  price |-> p.price, owner |-> Some(p.owner),
                  createdAt |-> toISOString(p.createdAt)]]

\* Product.fromJSON(json)
fromJSON(json, rnd, now) ==
  Construct([id |-> json.id, name |-> json.name, price |-> json.price,
             owner |-> json.owner,
             createdAt |-> IF json.createdAt.kind = "absent" THEN None
                           ELSE Some(ParseDate(json.createdAt))],
            rnd, now)

(***************************************************************************)
(* 2) User, 3) AdminUser                                                   *)
(***************************************************************************)
\* The User objects: Mona is a plain user, Ziad an AdminUser.
Users == {"Mona", "Ziad"}
Admins == {"Ziad"}

\* The array objects: #products of each User (named after the User), and
\* the one a listProducts() call creates for its caller.
ArrRefs == Users \cup {"caller"}

\* Array.prototype.findIndex(p => p.id === productId) over an array of
\* Product references, 1-based; 0 stands for -1 (and for find's undefined).
findIndex(arr, productId) ==
  LET hits == {i \in 1..Len(arr) : products[arr[i]].id = productId}
  IN  IF hits = {} THEN 0 ELSE CHOOSE i \in hits : \A j \in hits : i <= j

\* arr.splice(idx, 1): the array without its element idx.
splice(arr, idx) == SubSeq(arr, 1, idx - 1) \o SubSeq(arr, idx + 1, Len(arr))

\* deleteProduct(productId) on the array arr: the error, the removed
\* Product (0: none) and the array afterwards.
deleteProduct(arr, productId) ==
  LET idx == findIndex(arr, productId)
  IN  IF idx = 0
      THEN [err |-> NotFoundError, deleted |-> 0, arr |-> arr]
      ELSE [err |-> NoError, deleted |-> arr[idx], arr |-> splice(arr, idx)]

\* A listProducts that returns this.#products itself.
listProductsAlias(u) == [ref |-> u, arrays |-> arrays]

\* listProducts() of user u: [...this.#products] is a new array object with
\* the same elements; the caller gets the reference to it.
listProducts(u) ==
  [ref |-> "caller", arrays |-> [arrays EXCEPT !["caller"] = arrays[u]]]

(***************************************************************************)
(* 4) ProductRepository: this.store is a Map, kept as the sequence of its  *)
(* entries in insertion order.  A Product argument is a reference 1..n; 0  *)
(* is an argument that is no Product instance.                             *)
(***************************************************************************)
\* Map.prototype.has
MapHas(st, key) == \E i \in 1..Len(st) : st[i].key = key

\* Map.prototype.get: the reference stored, 0 for undefined.
MapGet(st, key) ==
  IF MapHas(st, key)
  THEN st[CHOOSE i \in 1..Len(st) : st[i].key = key].ref
  ELSE 0

\* Map.prototype.set: an existing key keeps its place.
MapSet(st, key, ref) ==
  IF MapHas(st, key)
  THEN [i \in 1..Len(st) |-> IF st[i].key = key
                             THEN [key |-> key, ref |-> ref] ELSE st[i]]
  ELSE Append(st, [key |-> key, ref |-> ref])

\* Map.prototype.delete: whether the key was there, and the map afterwards.
MapDelete(st, key) ==
  [ok |-> MapHas(st, key),
   store |-> IF MapHas(st, key)
             THEN LET i == CHOOSE j \in 1..Len(st) : st[j].key = key
                  IN  SubSeq(st, 1, i - 1) \o SubSeq(st, i + 1, Len(st))
             ELSE st]

\* create(product) on the store st, the Product heap being heap
create(st, heap, x) ==
  IF x = 0 THEN [err |-> TypeMismatchError, store |-> st]
  ELSE [err |-> NoError, store |-> MapSet(st, heap[x].id, x)]

\* getById(id): 0 is null
getById(st, id) == MapGet(st, id)

\* getAll(): the stored references in insertion order
getAll(st) == [i \in 1..Len(st) |-> st[i].ref]

\* An update that does not look whether the key is there.
updateUpsert(st, heap, x) ==
  IF x = 0 THEN [err |-> TypeMismatchError, store |-> st]
  ELSE [err |-> NoError, store |-> MapSet(st, heap[x].id, x)]

\* update(product)
update(st, heap, x) ==
  IF x = 0 THEN [err |-> TypeMismatchError, store |-> st]
  ELSE IF ~MapHas(st, heap[x].id) THEN [err |-> NotFoundError, store |-> st]
  ELSE [err |-> NoError, store |-> MapSet(st, heap[x].id, x)]

\* A delete that reports the key and leaves the entry.
deleteKeepsEntry(st, id) == [ok |-> MapHas(st, id), store |-> st]

\* delete(id)
delete(st, id) == MapDelete(st, id)

(***************************************************************************)
(* The record of the latest call.                                          *)
(*   op   the operation          who  the User it was called on            *)
(*   id   its id argument        num  its percent argument                 *)
(*   err  the error thrown       ref  the Product returned (0: none)       *)
(*   ok   the boolean returned   src  the Product a JSON record came from  *)
(***************************************************************************)
Call(op, who, id, num, err, ref, ok, src) ==
  [op |-> op, who |-> who, id |-> id, num |-> num, err |-> err, ref |-> ref,
   ok |-> ok, src |-> src]

\* After construction of the Users, the repository and the service.
InitWith(n) ==
  /\ products = <<>>
  /\ arrays = [a \in ArrRefs |-> <<>>]
  /\ held = "none"
  /\ store = <<>>
  /\ last = Call("init", "", "", Undef, NoError, 0, FALSE, 0)
  /\ limit = n

Refs == 1..Len(products)

\* A constructor call inside an operation: a thrown error leaves everything
\* as it was; otherwise the new object gets the next reference.
Failed(op, who, id, num, err) ==
  /\ last' = Call(op, who, id, num, err, 0, FALSE, 0)
  /\ UNCHANGED <<products, arrays, held, store, limit>>

(***************************************************************************)
(* Calls on a Product.                                                     *)
(***************************************************************************)
\* new Product(a)
NewProduct(a, rnd, now) ==
  LET r == Construct(a, rnd, now)
  IN  IF r.err # NoError
      THEN Failed("new", "", "", Undef, r.err)
      ELSE /\ Len(products) < limit
           /\ products' = Append(products, r.p)
           /\ last' = Call("new", "", r.p.id, Undef, NoError,
                           Len(products) + 1, FALSE, 0)
           /\ UNCHANGED <<arrays, held, store, limit>>

\* product.name = val
SetName(x, val) ==
  LET r == setName(products[x], val)
  IN  /\ products' = [products EXCEPT ![x] = r.p]
      /\ last' = Call("name", "", "", Undef, r.err, x, FALSE, 0)
      /\ UNCHANGED <<arrays, held, store, limit>>

\* product.price = val
SetPrice(x, val) ==
  LET r == setPrice(products[x], val)
  IN  /\ products' = [products EXCEPT ![x] = r.p]
      /\ last' = Call("price", "", "", Undef, r.err, x, FALSE, 0)
      /\ UNCHANGED <<arrays, held, store, limit>>

\* product.applyDiscount(percent)
ApplyDiscount(x, percent) ==
  LET r == applyDiscount(products[x], percent)
  IN  /\ products' = [products EXCEPT ![x] = r.p]
      /\ last' = Call("applyDiscount", "", "", Undef, r.err, x, FALSE, 0)
      /\ UNCHANGED <<arrays, held, store, limit>>

\* Product.fromJSON(json), json being what products[src].toJSON() returned
\* (src > 0) or a record of the caller's own (src = 0).  A throwing toJSON
\* ends the round trip.
FromJSON(json, src, rnd, now) ==
  LET r == fromJSON(json, rnd, now)
  IN  IF r.err # NoError
      THEN /\ last' = Call("fromJSON", "", "", Undef, r.err, 0, FALSE, src)
           /\ UNCHANGED <<products, arrays, held, store, limit>>
      ELSE /\ Len(products) < limit
           /\ products' = Append(products, r.p)
           /\ last' = Call("fromJSON", "", r.p.id, Undef, NoError,
                           Len(products) + 1, FALSE, src)
           /\ UNCHANGED <<arrays, held, store, limit>>

\* Product.fromJSON(products[x].toJSON())
RoundTrip(x, rnd, now) ==
  LET j == toJSON(products[x])
  IN  IF j.err # NoError
      THEN /\ last' = Call("toJSON", "", "", Undef, j.err, 0, FALSE, x)
           /\ UNCHANGED <<products, arrays, held, store, limit>>
      ELSE FromJSON(j.json, x, rnd, now)

(***************************************************************************)
(* Calls on a User.                                                        *)
(***************************************************************************)
\* u.addProduct(name, price)
AddProduct(u, name, price, rnd, now) ==
  LET r == Construct([id |-> None, name |-> name, price |-> price,
                      owner |-> Some(u), createdAt |-> None], rnd, now)
  IN  IF r.err # NoError
      THEN Failed("addProduct", u, "", Undef, r.err)
      ELSE /\ Len(products) < limit
           /\ products' = Append(products, r.p)
           /\ arrays' = [arrays EXCEPT ![u] = Append(@, Len(products) + 1)]
           /\ last' = Call("addProduct", u, r.p.id, Undef, NoError,
                           Len(products) + 1, FALSE, 0)
           /\ UNCHANGED <<held, store, limit>>

\* u.listProducts()
ListProducts(u) ==
  LET r == listProducts(u)
  IN  /\ arrays' = r.arrays
      /\ held' = r.ref
      /\ last' = Call("listProducts", u, "", Undef, NoError, 0, FALSE, 0)
      /\ UNCHANGED <<products, store, limit>>

\* u.updateProductPrice(productId, newPrice)
UpdateProductPrice(u, productId, newPrice) ==
  LET idx == findIndex(arrays[u], productId)
  IN  IF idx = 0
      THEN Failed("updateProductPrice", u, productId, Undef, NotFoundError)
      ELSE LET x == arrays[u][idx]
               r == setPrice(products[x], newPrice)
           IN  /\ products' = [products EXCEPT ![x] = r.p]
               /\ last' = Call("updateProductPrice", u, productId, Undef,
                               r.err, IF r.err = NoError THEN x ELSE 0,
                               FALSE, 0)
               /\ UNCHANGED <<arrays, held, store, limit>>

\* u.deleteProduct(productId)
DeleteProduct(u, productId) ==
  LET r == deleteProduct(arrays[u], productId)
  IN  /\ arrays' = [arrays EXCEPT ![u] = r.arr]
      /\ last' = Call("deleteProduct", u, productId, Undef, r.err, r.deleted,
                      FALSE, 0)
      /\ UNCHANGED <<products, held, store, limit>>

\* admin.deleteProductFromUser(targetUser, productId); a targetUser outside
\* Users is no User instance.
DeleteProductFromUser(admin, target, productId) ==
  IF target \notin Users
  THEN Failed("deleteProductFromUser", admin, productId, Undef,
              TypeMismatchError)
  ELSE LET r == deleteProduct(arrays[target], productId)
       IN  /\ arrays' = [arrays EXCEPT ![target] = r.arr]
           /\ last' = Call("deleteProductFromUser", target, productId, Undef,
                           r.err, r.deleted, FALSE, 0)
           /\ UNCHANGED <<products, held, store, limit>>

(***************************************************************************)
(* Calls on the ProductRepository.                                         *)
(***************************************************************************)
\* repo.create(product)
Create(x) ==
  LET r == create(store, products, x)
  IN  /\ store' = r.store
      /\ last' = Call("create", "", IF x = 0 THEN "" ELSE products[x].id,
                      Undef, r.err, IF r.err = NoError THEN x ELSE 0,
                      FALSE, 0)
      /\ UNCHANGED <<products, arrays, held, limit>>

\* repo.update(product)
Update(x) ==
  LET r == update(store, products, x)
  IN  /\ store' = r.store
      /\ last' = Call("update", "", IF x = 0 THEN "" ELSE products[x].id,
                      Undef, r.err, IF r.err = NoError THEN x ELSE 0,
                      FALSE, 0)
      /\ UNCHANGED <<products, arrays, held, limit>>

\* repo.delete(id)
Delete(id) ==
  LET r == delete(store, id)
  IN  /\ store' = r.store
      /\ last' = Call("delete", "", id, Undef, NoError, 0, r.ok, 0)
      /\ UNCHANGED <<products, arrays, held, limit>>

(***************************************************************************)
(* 5) ProductService over the repository.                                  *)
(***************************************************************************)
\* service.addNewProduct(name, price, owner)
AddNewProduct(name, price, owner, rnd, now) ==
  LET r == Construct([id |-> None, name |-> name, price |-> price,
                      owner |-> owner, createdAt |-> None], rnd, now)
  IN  IF r.err # NoError
      THEN Failed("addNewProduct", "", "", Undef, r.err)
      ELSE /\ Len(products) < limit
           /\ LET x == Len(products) + 1
                  heap == Append(products, r.p)
                  c == create(store, heap, x)
              IN  /\ products' = heap
                  /\ store' = c.store
                  /\ last' = Call("addNewProduct", "", r.p.id, Undef, c.err,
                                  IF c.err = NoError THEN x ELSE 0, FALSE, 0)
           /\ UNCHANGED <<arrays, held, limit>>

\* service.changePrice(id, newPrice): the setter, then repo.update
ChangePrice(id, newPrice) ==
  LET x == getById(store, id)
  IN  IF x = 0
      THEN Failed("changePrice", "", id, Undef, NotFoundError)
      ELSE LET r == setPrice(products[x], newPrice)
               heap == [products EXCEPT ![x] = r.p]
               u == update(store, heap, x)
           IN  /\ products' = heap
               /\ store' = IF r.err = NoError THEN u.store ELSE store
               /\ last' = Call("changePrice", "", id, Undef,
                               IF r.err # NoError THEN r.err ELSE u.err,
                               IF r.err = NoError /\ u.err = NoError
                               THEN x ELSE 0, FALSE, 0)
               /\ UNCHANGED <<arrays, held, limit>>

\* service.discount(id, percent): applyDiscount, then repo.update
Discount(id, percent) ==
  LET x == getById(store, id)
  IN  IF x = 0
      THEN Failed("discount", "", id, percent, NotFoundError)
      ELSE LET r == applyDiscount(products[x], percent)
               heap == [products EXCEPT ![x] = r.p]
               u == update(store, heap, x)
           IN  /\ products' = heap
               /\ store' = IF r.err = NoError THEN u.store ELSE store
               /\ last' = Call("discount", "", id, percent,
                               IF r.err # NoError THEN r.err ELSE u.err,
                               IF r.err = NoError /\ u.err = NoError
                               THEN x ELSE 0, FALSE, 0)
               /\ UNCHANGED <<arrays, held, limit>>

\* service.remove(id)
Remove(id) ==
  LET r == delete(store, id)
  IN  /\ store' = r.store
      /\ last' = Call("remove", "", id, Undef,
                      IF r.ok THEN NoError ELSE NotFoundError, 0, r.ok, 0)
      /\ UNCHANGED <<products, arrays, held, limit>>

(***************************************************************************)
(* What a caller can do to the array a listProducts() call returned.       *)
(***************************************************************************)
\* arr.push(product)
Push(x) ==
  /\ held # "none"
  /\ Len(arrays[held]) < limit
  /\ arrays' = [arrays EXCEPT ![held] = Append(@, x)]
  /\ last' = Call("push", "", "", Undef, NoError, x, FALSE, 0)
  /\ UNCHANGED <<products, held, store, limit>>

\* arr.pop()
Pop ==
  /\ held # "none"
  /\ arrays[held] # <<>>
  /\ arrays' = [arrays EXCEPT ![held] = SubSeq(@, 1, Len(@) - 1)]
  /\ last' = Call("pop", "", "", Undef, NoError, 0, FALSE, 0)
  /\ UNCHANGED <<products, held, store, limit>>

\* arr[i - 1] = product
Replace(i, x) ==
  /\ held # "none"
  /\ i \in 1..Len(arrays[held])
  /\ arrays' = [arrays EXCEPT ![held][i] = x]
  /\ last' = Call("replace", "", "", Undef, NoError, x, FALSE, 0)
  /\ UNCHANGED <<products, held, store, limit>>

\* arr.reverse()
Reverse ==
  /\ held # "none"
  /\ arrays' = [arrays EXCEPT
                  ![held] = [i \in 1..Len(@) |-> @[Len(@) + 1 - i]]]
  /\ last' = Call("reverse", "", "", Undef, NoError, 0, FALSE, 0)
  /\ UNCHANGED <<products, held, store, limit>>

(***************************************************************************)
(* The arguments the calls are made with.                                  *)
(***************************************************************************)
\* Math.random() in quarters: 0.25 and 0.5, so a generated id may repeat.
RandomValues == {1, 2}

\* new Date(): the clock, in milliseconds.
ClockValues == {1000}

\* id arguments of the lookups: the ids Math.random() gives, and one that
\* no Product of the model has
IdInputs == {"p_9", "p_i", "p_zz"}

\* The catalogue's arguments.  name: "a", " ab "; price: -1, 0.02;
\* percent: 50, 150.
CatNames == {Some(<<"a">>), Some(<<" ", "a", "b", " ">>)}
CatPrices == {Fin(-1000), Fin(20)}
CatPercents == {Fin(50000), Fin(150000)}
CatOwners == {Some("Mona")}
CatCtor ==
  {[id |-> Some("p_i"), name |-> Some(<<" ", "a", "b", " ">>),
    price |-> Fin(20), owner |-> None, createdAt |-> None],
   [id |-> None, name |-> Some(<<"a">>),
    price |-> Fin(20), owner |-> None, createdAt |-> None],
   [id |-> Some("p_i"), name |-> Some(<<"a", "b">>),
    price |-> Fin(-1000), owner |-> None, createdAt |-> None]}

\* The arguments of the calls on a Product.
\* name: undefined, "", "a", " a ", " ab ", "abc"
NameInputs == {None, Some(<<>>), Some(<<"a">>), Some(<<" ", "a", " ">>),
               Some(<<" ", "a", "b", " ">>), Some(<<"a", "b", "c">>)}
\* price: undefined, -1, -Infinity, 0.005, 0.015, 0.02, 0.125, Infinity
PriceInputs == {Undef, Fin(-1000), NegInf, Fin(5), Fin(15), Fin(20), Fin(125),
                Inf}
\* percent: undefined, -1, 0, 50, 100, 150, Infinity
PercentInputs == {Undef, Fin(-1000), Fin(0), Fin(50000), Fin(100000),
                  Fin(150000), Inf}
CtorInputs ==
  {[id |-> Some("p_x"), name |-> Some(<<" ", "a", "b", " ">>),
    price |-> Fin(125), owner |-> None, createdAt |-> None],
   [id |-> Some("p_x"), name |-> Some(<<"a", "b", "c">>),
    price |-> Fin(20), owner |-> Some("Mona"),
    createdAt |-> Some(DateOf(86400123))],
   [id |-> None, name |-> Some(<<"a", "b">>),
    price |-> Inf, owner |-> None, createdAt |-> None],
   [id |-> None, name |-> Some(<<"a", "b">>),
    price |-> Fin(20), owner |-> None, createdAt |-> Some(InvalidDate)],
   [id |-> None, name |-> Some(<<"a">>),
    price |-> Fin(20), owner |-> None, createdAt |-> None],
   [id |-> Some("p_x"), name |-> Some(<<"a", "b">>),
    price |-> Undef, owner |-> None, createdAt |-> None]}
\* plain records given to fromJSON that no toJSON produced
JsonInputs ==
  {[id |-> None, name |-> Some(<<"a", "b">>), price |-> Fin(20),
    owner |-> None, createdAt |-> NoTimestamp],
   [id |-> Some("p_x"), name |-> Some(<<"a", "b">>), price |-> Fin(20),
    owner |-> Some("Mona"), createdAt |-> NotATimestamp],
   [id |-> Some("p_x"), name |-> None, price |-> Fin(20),
    owner |-> Some("Mona"), createdAt |-> NoTimestamp]}

\* The User whose collection grows, and the Product (the first one
\* constructed) that the caller puts into the arrays it holds.
ListUsers == {"Mona"}
PushInputs == {1}

\* The discounts' arguments.  price: -1, 0.15, 120, Infinity;
\* percent: undefined, -1, 0, 10, 100, 150.
DiscountNames == {Some(<<"W", "a", "t", "c", "h">>)}
DiscountPrices == {Fin(-1000), Fin(150), Fin(120000), Inf}
DiscountPercents == {Undef, Fin(-1000), Fin(0), Fin(10000), Fin(100000),
                     Fin(150000)}

(***************************************************************************)
(* The catalogue: every operation of Products, Users, the repository and   *)
(* the service, on few argument values.                                    *)
(***************************************************************************)
Init == InitWith(MaxProducts)

Next ==
  \/ \E a \in CatCtor, rnd \in RandomValues, now \in ClockValues :
       NewProduct(a, rnd, now)
  \/ \E x \in Refs, val \in CatNames : SetName(x, val)
  \/ \E x \in Refs, val \in CatPrices : SetPrice(x, val)
  \/ \E x \in Refs, percent \in CatPercents : ApplyDiscount(x, percent)
  \/ \E u \in Users, name \in CatNames, price \in CatPrices,
        rnd \in RandomValues, now \in ClockValues :
       AddProduct(u, name, price, rnd, now)
  \/ \E u \in Users, id \in IdInputs, price \in CatPrices :
       UpdateProductPrice(u, id, price)
  \/ \E u \in Users, id \in IdInputs : DeleteProduct(u, id)
  \/ \E admin \in Admins, target \in Users \cup {"notAUser"}, id \in IdInputs :
       DeleteProductFromUser(admin, target, id)
  \/ \E x \in Refs \cup {0} : Create(x)
  \/ \E x \in Refs \cup {0} : Update(x)
  \/ \E id \in IdInputs : Delete(id)
  \/ \E name \in CatNames, price \in CatPrices, owner \in CatOwners,
        rnd \in RandomValues, now \in ClockValues :
       AddNewProduct(name, price, owner, rnd, now)
  \/ \E id \in IdInputs, price \in CatPrices : ChangePrice(id, price)
  \/ \E id \in IdInputs, percent \in CatPercents : Discount(id, percent)
  \/ \E id \in IdInputs : Remove(id)

Spec == Init /\ [][Next]_vars

(***************************************************************************)
(* The calls on Products alone, on the wider argument values.              *)
(***************************************************************************)
InitProduct == InitWith(MaxInstances)

NextProduct ==
  \/ \E a \in CtorInputs, rnd \in RandomValues, now \in ClockValues :
       NewProduct(a, rnd, now)
  \/ \E x \in Refs, val \in NameInputs : SetName(x, val)
  \/ \E x \in Refs, val \in PriceInputs : SetPrice(x, val)
  \/ \E x \in Refs, percent \in PercentInputs : ApplyDiscount(x, percent)
  \/ \E json \in JsonInputs, rnd \in RandomValues, now \in ClockValues :
       FromJSON(json, 0, rnd, now)
  \/ \E x \in Refs, rnd \in RandomValues, now \in ClockValues :
       RoundTrip(x, rnd, now)

SpecProduct == InitProduct /\ [][NextProduct]_vars

(***************************************************************************)
(* The repository and the service over it.                                 *)
(***************************************************************************)
InitRepo == InitWith(MaxStored)

NextRepo ==
  \/ \E a \in CatCtor, rnd \in RandomValues, now \in ClockValues :
       NewProduct(a, rnd, now)
  \/ \E x \in Refs \cup {0} : Create(x)
  \/ \E x \in Refs \cup {0} : Update(x)
  \/ \E id \in IdInputs : Delete(id)
  \/ \E name \in CatNames, price \in CatPrices, owner \in CatOwners,
        rnd \in RandomValues, now \in ClockValues :
       AddNewProduct(name, price, owner, rnd, now)
  \/ \E id \in IdInputs, price \in CatPrices : ChangePrice(id, price)
  \/ \E id \in IdInputs, percent \in CatPercents : Discount(id, percent)
  \/ \E id \in IdInputs : Remove(id)

SpecRepo == InitRepo /\ [][NextRepo]_vars

(***************************************************************************)
(* A User's collection and the arrays listProducts() hands out.            *)
(***************************************************************************)
InitList == InitWith(MaxListed)

NextList ==
  \/ \E u \in ListUsers, name \in CatNames, price \in CatPrices,
        rnd \in RandomValues, now \in ClockValues :
       AddProduct(u, name, price, rnd, now)
  \/ \E u \in Users, id \in IdInputs : DeleteProduct(u, id)
  \/ \E u \in Users : ListProducts(u)
  \/ \E x \in Refs \cap PushInputs : Push(x)
  \/ Pop
  \/ \E i \in 1..limit, x \in Refs \cap PushInputs : Replace(i, x)
  \/ Reverse

SpecList == InitList /\ [][NextList]_vars

(***************************************************************************)
(* A User's Products put into the repository.                              *)
(***************************************************************************)
InitShare == InitWith(MaxShared)

NextShare ==
  \/ \E u \in ListUsers, name \in CatNames, price \in CatPrices,
        rnd \in RandomValues, now \in ClockValues :
       AddProduct(u, name, price, rnd, now)
  \/ \E u \in Users, id \in IdInputs, price \in CatPrices :
       UpdateProductPrice(u, id, price)
  \/ \E u \in Users, id \in IdInputs : DeleteProduct(u, id)
  \/ \E x \in Refs : Create(x)
  \/ \E id \in IdInputs : Delete(id)
  \/ \E id \in IdInputs, price \in CatPrices : ChangePrice(id, price)
  \/ \E id \in IdInputs, percent \in CatPercents : Discount(id, percent)
  \/ \E id \in IdInputs : Remove(id)

SpecShare == InitShare /\ [][NextShare]_vars

(***************************************************************************)
(* One Product of the service and its discounts.                           *)
(***************************************************************************)
InitDiscount == InitWith(MaxDiscounted)

NextDiscount ==
  \/ \E name \in DiscountNames, price \in DiscountPrices, owner \in CatOwners,
        rnd \in RandomValues, now \in ClockValues :
       AddNewProduct(name, price, owner, rnd, now)
  \/ \E id \in IdInputs, percent \in DiscountPercents : Discount(id, percent)

SpecDiscount == InitDiscount /\ [][NextDiscount]_vars

(***************************************************************************)
(* The claims.                                                             *)
(***************************************************************************)
\* The keys of the repository's Map.
Keys(st) == {st[i].key : i \in 1..Len(st)}

\* The Products in an array.
Elements(arr) == {arr[i] : i \in 1..Len(arr)}

\* The price of the Product that user u finds under id (find: the first).
PriceVia(u, id) == products[arrays[u][findIndex(arrays[u], id)]].price

\* C1: every Product has price >= 0 and a name of at least 2 characters that
\* is its own trimmed form, whatever calls were made.
C1_ProductsValid ==
  \A x \in Refs :
    /\ NonNegative(products[x].price)
    /\ Len(products[x].name) >= 2
    /\ products[x].name = Trim(products[x].name)

\* C2: a call that fails leaves the fields of every Product, the collection
\* of every User and the repository's store as they were.
C2_FailedCallChangesNothing ==
  [][last'.err # NoError =>
       /\ products' = products
       /\ \A u \in Users : arrays'[u] = arrays[u]
       /\ store' = store]_vars

\* A failed changePrice on a stored Product that a User also holds.
C2_Witness ==
  /\ last.op = "changePrice"
  /\ last.err = ValidationError
  /\ getById(store, last.id) \in Elements(arrays["Mona"])

\* C3: no two distinct Product instances have the same id (the part of the
\* claim the code can break; C3_IdImmutable is the other part).
C3_IdsUnique ==
  \A x, y \in Refs : x # y => products[x].id # products[y].id

\* A Product's id never changes after construction.
C3_IdImmutable ==
  [][\A x \in Refs : products'[x].id = products[x].id]_vars

\* C4: deleteProduct(id) fails with NotFoundError when the User has no
\* Product of that id; otherwise it removes exactly one Product of that id
\* and returns it, the others keep their order, and the collection then
\* holds no Product of that id.
C4_DeleteProduct ==
  [][last'.op = "deleteProduct" =>
       LET arr == arrays[last'.who]
           id == last'.id
       IN  IF \A i \in 1..Len(arr) : products[arr[i]].id # id
           THEN /\ last'.err = NotFoundError
                /\ arrays'[last'.who] = arr
           ELSE /\ last'.err = NoError
                /\ \E i \in 1..Len(arr) :
                     /\ arr[i] = last'.ref
                     /\ products[arr[i]].id = id
                     /\ arrays'[last'.who] =
                          SubSeq(arr, 1, i - 1) \o SubSeq(arr, i + 1, Len(arr))
                /\ \A j \in 1..Len(arrays'[last'.who]) :
                     products'[arrays'[last'.who][j]].id # id]_vars

\* The part of C4 that does not rest on ids being unique: the first Product
\* of that id is removed and returned, the others keep their order.
C4_RemovesFirstMatch ==
  [][last'.op = "deleteProduct" =>
       LET arr == arrays[last'.who]
           id == last'.id
           hits == {i \in 1..Len(arr) : products[arr[i]].id = id}
       IN  IF hits = {}
           THEN /\ last'.err = NotFoundError
                /\ arrays'[last'.who] = arr
           ELSE /\ last'.err = NoError
                /\ \E i \in hits :
                     /\ \A j \in hits : i <= j
                     /\ arr[i] = last'.ref
                     /\ arrays'[last'.who] =
                          SubSeq(arr, 1, i - 1) \o SubSeq(arr, i + 1, Len(arr))
                /\ last'.ref \notin Elements(arrays'[last'.who])]_vars

\* C5: update(product) fails with NotFoundError exactly when product.id is
\* no stored key and otherwise overwrites that entry; update, changePrice
\* and discount leave the set of stored ids alone; an id enters the store
\* only through create / addNewProduct and leaves it only through delete /
\* remove.
C5_UpdateKeepsKeys ==
  [][/\ (last'.op = "update" /\ last'.err # TypeMismatchError) =>
          /\ (last'.err = NotFoundError) <=> (last'.id \notin Keys(store))
          /\ last'.err = NoError =>
               /\ getById(store', last'.id) = last'.ref
               /\ \A k \in Keys(store) \ {last'.id} :
                    getById(store', k) = getById(store, k)
     /\ last'.op \in {"update", "changePrice", "discount"} =>
          Keys(store') = Keys(store)
     /\ Keys(store') \ Keys(store) # {} =>
          last'.op \in {"create", "addNewProduct"}
     /\ Keys(store) \ Keys(store') # {} =>
          last'.op \in {"delete", "remove"}]_vars

\* An update of a Product whose id is not stored, beside stored ones.
C5_Witness ==
  /\ last.op = "update"
  /\ last.err = NotFoundError
  /\ store # <<>>

\* C6: delete(id) never throws, returns true exactly when id was a stored
\* key, getById(id) is null after it, and a second delete of the same id
\* right after it returns false.
C6_Delete ==
  [][last'.op = "delete" =>
       /\ last'.err = NoError
       /\ last'.ok <=> (last'.id \in Keys(store))
       /\ getById(store', last'.id) = 0
       /\ (last.op = "delete" /\ last.id = last'.id) => ~last'.ok]_vars

\* A delete that removed an entry and left another one.
C6_Witness ==
  /\ last.op = "delete"
  /\ last.ok
  /\ store # <<>>

\* C7: what a caller does to the array listProducts() returned changes no
\* User's collection: a collection changes only by addProduct, which
\* appends the new Product, and by deleteProduct, which removes one, and
\* listProducts() returns its Products in that order.
C7_ListIsACopy ==
  [][\A u \in Users :
       /\ last'.op \in {"push", "pop", "replace", "reverse"} =>
            arrays'[u] = arrays[u]
       /\ (last'.op = "listProducts" /\ last'.who = u) =>
            /\ arrays'[held'] = arrays[u]
            /\ arrays'[u] = arrays[u]
       /\ arrays'[u] # arrays[u] =>
            \/ /\ last'.op = "addProduct"
               /\ last'.who = u
               /\ arrays'[u] = Append(arrays[u], last'.ref)
               /\ last'.ref \notin Elements(arrays[u])
            \/ /\ last'.op = "deleteProduct"
               /\ last'.who = u
               /\ \E i \in 1..Len(arrays[u]) :
                    arrays'[u] = SubSeq(arrays[u], 1, i - 1)
                                   \o SubSeq(arrays[u], i + 1, Len(arrays[u]))]_vars

\* The caller has changed the array it got, and the User still has its own.
C7_Witness ==
  /\ last.op \in {"push", "pop", "replace", "reverse"}
  /\ held # "none"
  /\ Len(arrays["Mona"]) >= 2
  /\ arrays[held] # arrays["Mona"]

\* The nearest-cent test of C8: new is old * (1 - pc/100) to 2 decimals.
RoundedTo2(old, pc, new) ==
  IF old.k = "fin"
  THEN /\ new.k = "fin"
       /\ new.v % 10 = 0
       /\ LET exact == (old.v \div 10) * (100000 - pc.v)
              got == (new.v \div 10) * 100000
          IN  got - exact <= 50000 /\ exact - got <= 50000
  ELSE new = old

\* C8: discount(id, percent) fails with NotFoundError when id is not stored
\* and with ValidationError when percent is no number in [0, 100];
\* otherwise getById(id) then has the previous price times (1 - percent/100)
\* rounded to 2 decimals: unchanged for 0, 0 for 100, 108 for 10 percent
\* off 120.
C8_Discount ==
  [][last'.op = "discount" =>
       LET x == getById(store, last'.id)
           pc == ToNumber(last'.num)
       IN  IF x = 0
           THEN /\ last'.err = NotFoundError
                /\ products' = products /\ store' = store
           ELSE IF ~(pc.k = "fin" /\ pc.v >= 0 /\ pc.v <= 100000)
           THEN /\ last'.err = ValidationError
                /\ products' = products /\ store' = store
           ELSE /\ last'.err = NoError
                /\ getById(store', last'.id) = x
                /\ RoundedTo2(products[x].price, pc, products'[x].price)
                /\ pc.v = 0 => products'[x].price = products[x].price
                /\ pc.v = 100000 => products'[x].price = Fin(0)
                /\ (pc.v = 10000 /\ products[x].price = Fin(120000)) =>
                     products'[x].price = Fin(108000)]_vars

\* C8 for the Products whose price is finite.
C8_DiscountOfFinite ==
  [][(last'.op = "discount" /\ getById(store, last'.id) # 0
        /\ products[getById(store, last'.id)].price.k = "fin") =>
       LET x == getById(store, last'.id)
           pc == ToNumber(last'.num)
       IN  IF ~(pc.k = "fin" /\ pc.v >= 0 /\ pc.v <= 100000)
           THEN /\ last'.err = ValidationError
                /\ products' = products /\ store' = store
           ELSE /\ last'.err = NoError
                /\ getById(store', last'.id) = x
                /\ RoundedTo2(products[x].price, pc, products'[x].price)
                /\ pc.v = 0 => products'[x].price = products[x].price
                /\ pc.v = 100000 => products'[x].price = Fin(0)
                /\ (pc.v = 10000 /\ products[x].price = Fin(120000)) =>
                     products'[x].price = Fin(108000)]_vars

\* C9: Product.fromJSON(p.toJSON()) succeeds for every Product p, gives a
\* Product with p's id, name, price, owner and createdAt, and leaves p as
\* it was.
C9_RoundTrip ==
  [][(last'.op \in {"toJSON", "fromJSON"} /\ last'.src > 0) =>
       /\ last'.err = NoError
       /\ last'.ref \in 1..Len(products')
       /\ last'.ref # last'.src
       /\ products'[last'.ref] = products[last'.src]
       /\ products'[last'.src] = products[last'.src]]_vars

\* C9 for the Products with a price that is a number and a valid createdAt.
C9_RoundTripOfValid ==
  [][(/\ last'.op \in {"toJSON", "fromJSON"}
      /\ last'.src > 0
      /\ products[last'.src].price.k # "nan"
      /\ products[last'.src].createdAt.valid) =>
       /\ last'.err = NoError
       /\ last'.ref \in 1..Len(products')
       /\ last'.ref # last'.src
       /\ products'[last'.ref] = products[last'.src]
       /\ products'[last'.src] = products[last'.src]]_vars

\* C10: a Product of a User stored with create is shared, not copied: after
\* create, changePrice, discount and updateProductPrice the price read
\* through getById(id) is the price of the User's Product of that id;
\* removing it from the store leaves the User's collection alone, and
\* removing it from the User leaves the store alone.
C10_SharedWithRepository ==
  [][/\ (/\ last'.op \in {"create", "changePrice", "discount",
                          "updateProductPrice"}
         /\ last'.err = NoError) =>
          \A u \in Users : \A id \in Keys(store') :
            getById(store', id) \in Elements(arrays'[u]) =>
              products'[getById(store', id)].price = PriceVia(u, id)'
     /\ (last'.op = "create" /\ last'.err = NoError) =>
          /\ getById(store', last'.id) = last'.ref
          /\ products' = products
     /\ last'.op \in {"delete", "remove"} =>
          \A u \in Users : arrays'[u] = arrays[u]
     /\ last'.op \in {"deleteProduct", "deleteProductFromUser"} =>
          store' = store]_vars

\* C10 for the Users whose Products have ids that differ.
C10_SharedWhenIdsDiffer ==
  [][/\ (/\ last'.op \in {"create", "changePrice", "discount",
                          "updateProductPrice"}
         /\ last'.err = NoError) =>
          \A u \in Users : \A id \in Keys(store') :
            (/\ getById(store', id) \in Elements(arrays'[u])
             /\ \A i, j \in 1..Len(arrays'[u]) :
                  i # j => products'[arrays'[u][i]].id
                             # products'[arrays'[u][j]].id) =>
              products'[getById(store', id)].price = PriceVia(u, id)'
     /\ (last'.op = "create" /\ last'.err = NoError) =>
          /\ getById(store', last'.id) = last'.ref
          /\ products' = products
     /\ last'.op \in {"delete", "remove"} =>
          \A u \in Users : arrays'[u] = arrays[u]
     /\ last'.op \in {"deleteProduct", "deleteProductFromUser"} =>
          store' = store]_vars

====
